---- MODULE Spec2Model ----
(***************************************************************************)
(* Model of chat-client/src/client/mynahUi.ts: the controller that routes  *)
(* UI events of the chat panel to the backend channel (messager) and folds *)
(* streamed chat results back into the per-tab store of the UI toolkit.    *)
(*                                                                         *)
(* State: the tab stores of the toolkit (chat items, loadingChat,          *)
(* promptInputDisabledState, promptInputStickyCard, contextCommands), the  *)
(* selected tab, the two closure variables of createMynahUi                *)
(* (disclaimerCardActive, contextCommandGroups), the history overlay, and  *)
(* what the last handler emitted: outbound messages, notices and           *)
(* end-of-stream signals.  Every handler runs to completion (single        *)
(* threaded event loop), so every handler is one action.                   *)
(***************************************************************************)
EXTENDS Integers, Sequences, FiniteSets, TLC

VARIABLES
    tabs,                  \* mynahUi.getAllTabs(): tab id -> store
    selected,              \* mynahUi.getSelectedTabId(); 0 = undefined
    disclaimerCardActive,  \* closure variable of createMynahUi
    contextCommandGroups,  \* closure variable; 0 = undefined, n = n-th snapshot
    historyOpen,           \* the history overlay of chatHistoryList
    ackSent,               \* number of disclaimer-acknowledged messages ever sent
    scope,                 \* what is explored: "chat", "tabs", "session", ...
    ev,                    \* the handler that ran last, with its arguments
    out,                   \* outbound messages the last handler emitted
    notes,                 \* notices (mynahUi.notify) of the last handler
    signals,               \* end-of-stream signals of the last handler
    thrown                 \* message of the Error the last handler threw

vars == <<tabs, selected, disclaimerCardActive, contextCommandGroups,
          historyOpen, ackSent, scope, ev, out, notes, signals, thrown>>

---------------------------------------------------------------------------
(* Program constants and bounds *)

maxTabs == 10
\* tab ids 1..ActiveTabs receive chat events; higher ids are only opened
ActiveTabs == 2
\* chat items the initial tab holds, scope "chat"
MaxItems == 5
\* chat items the tabs 1..ActiveTabs hold together, scopes "tabs", "session"
MaxItemsFull == 3
\* disclaimer-acknowledged messages counted
MaxAcks == 2
\* context-command snapshots the backend sends
MaxCtx == 2
\* line ranges of one file detail
MaxRanges == 2
\* chat items the tabs 1..ActiveTabs hold together, scope "redirect"
MaxItemsRedirect == 4
\* chat items the tabs 1..ActiveTabs hold together, scope "streams"
MaxItemsStreams == 4
\* chat items the tabs 1..ActiveTabs hold together, scope "stall"
MaxItemsStall == 2

Undef == "undefined"
DEFAULT_HELP_PROMPT == "What can Amazon Q help me with?"
noMoreTabsTooltip == "You can only open ten conversation tabs at a time."

\* TabFactory.generateUniqueId(), line 125
initialTabId == 1

TabIds == 1..maxTabs
ActiveIds == 1..ActiveTabs

\* ChatItemType of the toolkit
PROMPT == "prompt"
ANSWER == "answer"
ANSWER_STREAM == "answer-stream"
SYSTEM_PROMPT == "system-prompt"

\* of a chat item the model keeps the type, the body and the follow-up
ChatItem(type, body, followUp) ==
    [type |-> type, body |-> body, followUp |-> followUp]


---------------------------------------------------------------------------
(* Inputs *)

\* ChatResult values the backend sends.  followUp: "auth" = options[0].type
\* is a valid auth follow-up type, "plain" = options[0] has no type.
ChatResult(body, messageId, followUp, contextList) ==
    [body |-> body, messageId |-> messageId, followUp |-> followUp,
     contextList |-> contextList]

EmptyResult == ChatResult(Undef, Undef, Undef, Undef)

ChatResults ==
    { EmptyResult,
      ChatResult("b", "m", "plain", "ctx"),
      ChatResult("b", Undef, "plain", Undef),
      ChatResult("", Undef, "auth", Undef) }

\* ChatPrompt values the user submits (command: quick action or undefined)
ChatPrompt(prompt, escapedPrompt, command) ==
    [prompt |-> prompt, escapedPrompt |-> escapedPrompt, command |-> command]

ChatPrompts ==
    { ChatPrompt("a<b", "a&lt;b", Undef),
      ChatPrompt("", "", "/clear"),
      ChatPrompt("", "", "/help") }

isValidAuthFollowUpType(type) == type = "auth"

---------------------------------------------------------------------------
(* The store contract of the UI toolkit (MynahUI) *)

Merge(rec, patch) ==
    [k \in DOMAIN rec |-> IF k \in DOMAIN patch THEN patch[k] ELSE rec[k]]

\* mynahUi.updateStore(tabId, data) for an existing tab
updateStore(ts, tabId, data) ==
    IF tabId \in DOMAIN ts
    THEN [ts EXCEPT ![tabId] = Merge(@, data)]
    ELSE ts

\* mynahUi.addChatItem(tabId, item): appends
addChatItem(ts, tabId, item) ==
    IF tabId \in DOMAIN ts
    THEN [ts EXCEPT ![tabId].chatItems = Append(@, item)]
    ELSE ts

\* the active stream of a tab: its last item, while that is a streaming
\* answer that no end-of-stream signal has ended
HasActiveStream(ts, tabId) ==
    /\ tabId \in DOMAIN ts
    /\ Len(ts[tabId].chatItems) > 0
    /\ ts[tabId].chatItems[Len(ts[tabId].chatItems)].type = ANSWER_STREAM

\* mynahUi.updateLastChatAnswer(tabId, updateWith): rewrites the active
\* stream in place, by position
updateLastChatAnswer(ts, tabId, updateWith) ==
    IF HasActiveStream(ts, tabId)
    THEN [ts EXCEPT ![tabId].chatItems[Len(ts[tabId].chatItems)] =
                        Merge(@, updateWith)]
    ELSE ts

\* mynahUi.endMessageStream(tabId, messageId): ends the active stream, which
\* becomes a terminal answer
endMessageStream(ts, tabId, messageId) ==
    IF HasActiveStream(ts, tabId)
    THEN [ts EXCEPT ![tabId].chatItems[Len(ts[tabId].chatItems)].type = ANSWER]
    ELSE ts

\* the id the toolkit gives a new tab; 0 when maxTabs tabs are open
NewTabId(ts) ==
    IF Cardinality(DOMAIN ts) >= maxTabs
    THEN 0
    ELSE CHOOSE t \in TabIds : t \notin DOMAIN ts /\ \A u \in 1..(t - 1) : u \in DOMAIN ts

\* the tab map with tab t added, holding `store`
WithTab(ts, t, store) ==
    [u \in DOMAIN ts \cup {t} |-> IF u = t THEN store ELSE ts[u]]

WithoutTab(ts, t) == [u \in DOMAIN ts \ {t} |-> ts[u]]

---------------------------------------------------------------------------
(* tabFactory *)

WelcomeItems == << ChatItem(ANSWER, "welcome", Undef) >>

\* tabFactory.createTab(needWelcomeMessages, disclaimerCardActive, chatMessages)
createTab(needWelcomeMessages, disclaimerCard, chatMessages) ==
    [chatItems |-> IF needWelcomeMessages THEN WelcomeItems ELSE chatMessages,
     loadingChat |-> FALSE,
     promptInputDisabledState |-> FALSE,
     promptInputStickyCard |-> disclaimerCard,
     contextCommands |-> 0]

---------------------------------------------------------------------------
(* messager: every call is one outbound message *)

Msg(type, tabId, data) == [type |-> type, tabId |-> tabId, data |-> data]

\* mynahUi.notify
Notice(type, content) == [type |-> type, content |-> content]

\* the record of a handler call: flag is isPartialResult, success or whether
\* the clicked tab showed the sticky card, arg a
\* button id, an action or a follow-up option, ret the tab id a creation gave
Event(op, tabId, flag, result, prompt, arg, ret) ==
    [op |-> op, tabId |-> tabId, flag |-> flag, result |-> result,
     prompt |-> prompt, arg |-> arg, ret |-> ret]

NoPrompt == ChatPrompt(Undef, Undef, Undef)

Ev(op, tabId) == Event(op, tabId, FALSE, EmptyResult, NoPrompt, Undef, 0)

EvArg(op, tabId, flag, arg, ret) ==
    Event(op, tabId, flag, EmptyResult, NoPrompt, arg, ret)

Emits(e, msgs, nts, sigs) ==
    /\ ev' = e
    /\ out' = msgs
    /\ notes' = nts
    /\ signals' = sigs
    /\ thrown' = Undef

---------------------------------------------------------------------------
(* handleChatPrompt, lines 68-117 *)

Step(ts, msgs) == [tabs |-> ts, out |-> msgs]

\* handleChatPrompt without the return that follows the /clear message
handleChatPromptNoReturn(ts, tabId, prompt) ==
    LET userPrompt == IF prompt.command = "/help"
                      THEN DEFAULT_HELP_PROMPT
                      ELSE prompt.escapedPrompt
        cleared == IF prompt.command = "/clear"
                   THEN updateStore(ts, tabId, [chatItems |-> <<>>])
                   ELSE ts
        msgs == IF prompt.command # Undef
                THEN << Msg("quickActionCommand", tabId, prompt.command) >>
                ELSE << Msg("chatPrompt", tabId, prompt.prompt) >>
        withPrompt == addChatItem(cleared, tabId, ChatItem(PROMPT, userPrompt, Undef))
        loading == updateStore(withPrompt, tabId,
                       [loadingChat |-> TRUE, promptInputDisabledState |-> TRUE])
    IN  Step(addChatItem(loading, tabId, ChatItem(ANSWER_STREAM, Undef, Undef)), msgs)

\* handleChatPrompt with a loading state that leaves the prompt input enabled
handleChatPromptInputEnabled(ts, tabId, prompt) ==
    LET userPrompt == IF prompt.command = "/help"
                      THEN DEFAULT_HELP_PROMPT
                      ELSE prompt.escapedPrompt
        cleared == IF prompt.command = "/clear"
                   THEN updateStore(ts, tabId, [chatItems |-> <<>>])
                   ELSE ts
        msgs == IF prompt.command # Undef
                THEN << Msg("quickActionCommand", tabId, prompt.command) >>
                ELSE << Msg("chatPrompt", tabId, prompt.prompt) >>
        withPrompt == addChatItem(cleared, tabId, ChatItem(PROMPT, userPrompt, Undef))
        loading == updateStore(withPrompt, tabId, [loadingChat |-> TRUE])
        withStream == addChatItem(loading, tabId, ChatItem(ANSWER_STREAM, Undef, Undef))
    IN  IF prompt.command = "/clear"
        THEN Step(cleared, msgs)
        ELSE Step(withStream, msgs)

handleChatPrompt(ts, tabId, prompt) ==
    LET userPrompt == IF prompt.command = "/help"
                      THEN DEFAULT_HELP_PROMPT
                      ELSE prompt.escapedPrompt
        cleared == IF prompt.command = "/clear"
                   THEN updateStore(ts, tabId, [chatItems |-> <<>>])
                   ELSE ts
        msgs == IF prompt.command # Undef
                THEN << Msg("quickActionCommand", tabId, prompt.command) >>
                ELSE << Msg("chatPrompt", tabId, prompt.prompt) >>
        withPrompt == addChatItem(cleared, tabId, ChatItem(PROMPT, userPrompt, Undef))
        loading == updateStore(withPrompt, tabId,
                       [loadingChat |-> TRUE, promptInputDisabledState |-> TRUE])
        withStream == addChatItem(loading, tabId, ChatItem(ANSWER_STREAM, Undef, Undef))
    IN  IF prompt.command = "/clear"
        THEN Step(cleared, msgs)
        ELSE Step(withStream, msgs)

---------------------------------------------------------------------------
(* createTabId, lines 378-392, and getOrCreateTabId, lines 394-398 *)

Created(ts, sel, tabId, nts, msgs) ==
    [tabs |-> ts, selected |-> sel, tabId |-> tabId, notes |-> nts, out |-> msgs]

\* onTabAdd, lines 186-194: the store update of the handler
defaultTabConfig(active, groups) ==
    IF active
    THEN [contextCommands |-> groups, promptInputStickyCard |-> TRUE]
    ELSE [contextCommands |-> groups]

\* onTabAdd that leaves the context commands out of the tab's store
tabAddNoCommands(ts, tabId, active, groups) ==
    IF active THEN updateStore(ts, tabId, [promptInputStickyCard |-> TRUE]) ELSE ts

tabAdd(ts, tabId, active, groups) ==
    updateStore(ts, tabId, defaultTabConfig(active, groups))

\* createTabId without the notice shown when the toolkit gives no tab
createTabIdSilent(ts, sel, active, needWelcomeMessages, chatMessages) ==
    LET tabId == NewTabId(ts)
        opened == WithTab(ts, tabId,
                          createTab(needWelcomeMessages, active, chatMessages))
    IN  IF tabId = 0
        THEN Created(ts, sel, 0, << >>, << >>)
        ELSE Created(tabAdd(opened, tabId, active, contextCommandGroups),
                     tabId, tabId, << >>, << Msg("tabAdd", tabId, Undef) >>)

\* tabId = 0: the toolkit returned undefined (no capacity).  The toolkit
\* reports every tab it adds through onTabAdd, the tabs of updateStore('')
\* included, before updateStore returns.
createTabId(ts, sel, active, needWelcomeMessages, chatMessages) ==
    LET tabId == NewTabId(ts)
        opened == WithTab(ts, tabId,
                          createTab(needWelcomeMessages, active, chatMessages))
    IN  IF tabId = 0
        THEN Created(ts, sel, 0, << Notice("warning", noMoreTabsTooltip) >>, << >>)
        ELSE Created(tabAdd(opened, tabId, active, contextCommandGroups),
                     tabId, tabId, << >>, << Msg("tabAdd", tabId, Undef) >>)

getOrCreateTabId(ts, sel, active) ==
    IF sel # 0
    THEN Created(ts, sel, sel, << >>, << >>)
    ELSE createTabId(ts, sel, active, FALSE, << >>)

---------------------------------------------------------------------------
(* addChatResponse, lines 400-486 *)

Response(ts, sigs) == [tabs |-> ts, signals |-> sigs]

\* the file-list header built from chatResult.contextList, lines 404-432
Header(chatResult) ==
    IF chatResult.contextList # Undef THEN chatResult.contextList ELSE Undef

\* { ...chatResultWithoutType, header: header }
PartialUpdate(chatResult) ==
    [k \in {f \in {"body", "messageId", "followUp"} : chatResult[f] # Undef}
             \cup {"header"} |->
        IF k = "header" THEN Header(chatResult) ELSE chatResult[k]]

FinalUpdate(chatResult) ==
    [header |-> Header(chatResult),
     body |-> chatResult.body,
     messageId |-> chatResult.messageId,
     followUp |-> IF chatResult.followUp # Undef THEN chatResult.followUp ELSE "{}"]

IsAuthFollowUpResult(chatResult) ==
    /\ chatResult.body = ""
    /\ chatResult.followUp # Undef
    /\ isValidAuthFollowUpType(chatResult.followUp)

EndSignal(tabId, messageId) == [tabId |-> tabId, messageId |-> messageId]

\* addChatResponse whose final branch leaves the prompt input disabled
addChatResponseInputDisabled(ts, chatResult, tabId, isPartialResult) ==
    IF isPartialResult
    THEN Response(updateLastChatAnswer(ts, tabId, PartialUpdate(chatResult)), << >>)
    ELSE IF chatResult = EmptyResult
    THEN Response(ts, << >>)
    ELSE IF IsAuthFollowUpResult(chatResult)
    THEN Response(addChatItem(ts, tabId,
                      ChatItem(SYSTEM_PROMPT, chatResult.body, chatResult.followUp)),
                  << >>)
    ELSE LET merged == updateLastChatAnswer(ts, tabId, FinalUpdate(chatResult))
             mid == IF chatResult.messageId # Undef THEN chatResult.messageId ELSE ""
             ended == endMessageStream(merged, tabId, mid)
         IN  Response(updateStore(ended, tabId, [loadingChat |-> FALSE]),
                      << EndSignal(tabId, mid) >>)

\* addChatResponse that re-enables the input with an authentication follow-up
addChatResponseAuthEnables(ts, chatResult, tabId, isPartialResult) ==
    IF isPartialResult
    THEN Response(updateLastChatAnswer(ts, tabId, PartialUpdate(chatResult)), << >>)
    ELSE IF chatResult = EmptyResult
    THEN Response(ts, << >>)
    ELSE IF IsAuthFollowUpResult(chatResult)
    THEN Response(updateStore(addChatItem(ts, tabId,
                                  ChatItem(SYSTEM_PROMPT, chatResult.body,
                                           chatResult.followUp)),
                              tabId, [promptInputDisabledState |-> FALSE]),
                  << >>)
    ELSE LET merged == updateLastChatAnswer(ts, tabId, FinalUpdate(chatResult))
             mid == IF chatResult.messageId # Undef THEN chatResult.messageId ELSE ""
             ended == endMessageStream(merged, tabId, mid)
         IN  Response(updateStore(ended, tabId,
                          [loadingChat |-> FALSE, promptInputDisabledState |-> FALSE]),
                      << EndSignal(tabId, mid) >>)

\* addChatResponse that ends the stream when the final result is empty
addChatResponseEmptyEnds(ts, chatResult, tabId, isPartialResult) ==
    IF isPartialResult
    THEN Response(updateLastChatAnswer(ts, tabId, PartialUpdate(chatResult)), << >>)
    ELSE IF IsAuthFollowUpResult(chatResult)
    THEN Response(addChatItem(ts, tabId,
                      ChatItem(SYSTEM_PROMPT, chatResult.body, chatResult.followUp)),
                  << >>)
    ELSE LET merged == IF chatResult = EmptyResult THEN ts
                       ELSE updateLastChatAnswer(ts, tabId, FinalUpdate(chatResult))
             mid == IF chatResult.messageId # Undef THEN chatResult.messageId ELSE ""
             ended == endMessageStream(merged, tabId, mid)
         IN  Response(updateStore(ended, tabId,
                          [loadingChat |-> FALSE, promptInputDisabledState |-> FALSE]),
                      << EndSignal(tabId, mid) >>)

\* addChatResponse whose final branch ends the stream before the merge
addChatResponseEndsFirst(ts, chatResult, tabId, isPartialResult) ==
    IF isPartialResult
    THEN Response(updateLastChatAnswer(ts, tabId, PartialUpdate(chatResult)), << >>)
    ELSE IF chatResult = EmptyResult
    THEN Response(ts, << >>)
    ELSE IF IsAuthFollowUpResult(chatResult)
    THEN Response(addChatItem(ts, tabId,
                      ChatItem(SYSTEM_PROMPT, chatResult.body, chatResult.followUp)),
                  << >>)
    ELSE LET mid == IF chatResult.messageId # Undef THEN chatResult.messageId ELSE ""
             ended == endMessageStream(ts, tabId, mid)
             merged == updateLastChatAnswer(ended, tabId, FinalUpdate(chatResult))
         IN  Response(updateStore(merged, tabId,
                          [loadingChat |-> FALSE, promptInputDisabledState |-> FALSE]),
                      << EndSignal(tabId, mid) >>)

\* addChatResponse whose partial branch adds the update as a new item
addChatResponsePartialAdds(ts, chatResult, tabId, isPartialResult) ==
    IF isPartialResult
    THEN Response(addChatItem(ts, tabId,
                      ChatItem(ANSWER_STREAM, chatResult.body, chatResult.followUp)),
                  << >>)
    ELSE IF chatResult = EmptyResult
    THEN Response(ts, << >>)
    ELSE IF IsAuthFollowUpResult(chatResult)
    THEN Response(addChatItem(ts, tabId,
                      ChatItem(SYSTEM_PROMPT, chatResult.body, chatResult.followUp)),
                  << >>)
    ELSE LET merged == updateLastChatAnswer(ts, tabId, FinalUpdate(chatResult))
             mid == IF chatResult.messageId # Undef THEN chatResult.messageId ELSE ""
             ended == endMessageStream(merged, tabId, mid)
         IN  Response(updateStore(ended, tabId,
                          [loadingChat |-> FALSE, promptInputDisabledState |-> FALSE]),
                      << EndSignal(tabId, mid) >>)

\* addChatResponse whose final branch resets the flags of the selected tab
addChatResponseSelectedTab(ts, chatResult, tabId, isPartialResult) ==
    IF isPartialResult
    THEN Response(updateLastChatAnswer(ts, tabId, PartialUpdate(chatResult)), << >>)
    ELSE IF chatResult = EmptyResult
    THEN Response(ts, << >>)
    ELSE IF IsAuthFollowUpResult(chatResult)
    THEN Response(addChatItem(ts, tabId,
                      ChatItem(SYSTEM_PROMPT, chatResult.body, chatResult.followUp)),
                  << >>)
    ELSE LET merged == updateLastChatAnswer(ts, tabId, FinalUpdate(chatResult))
             mid == IF chatResult.messageId # Undef THEN chatResult.messageId ELSE ""
             ended == endMessageStream(merged, tabId, mid)
         IN  Response(updateStore(ended, selected,
                          [loadingChat |-> FALSE, promptInputDisabledState |-> FALSE]),
                      << EndSignal(tabId, mid) >>)

\* addChatResponse whose partial branch clears loadingChat
addChatResponsePartialEnds(ts, chatResult, tabId, isPartialResult) ==
    IF isPartialResult
    THEN Response(updateStore(updateLastChatAnswer(ts, tabId, PartialUpdate(chatResult)),
                              tabId, [loadingChat |-> FALSE]),
                  << >>)
    ELSE IF chatResult = EmptyResult
    THEN Response(ts, << >>)
    ELSE IF IsAuthFollowUpResult(chatResult)
    THEN Response(addChatItem(ts, tabId,
                      ChatItem(SYSTEM_PROMPT, chatResult.body, chatResult.followUp)),
                  << >>)
    ELSE LET merged == updateLastChatAnswer(ts, tabId, FinalUpdate(chatResult))
             mid == IF chatResult.messageId # Undef THEN chatResult.messageId ELSE ""
             ended == endMessageStream(merged, tabId, mid)
         IN  Response(updateStore(ended, tabId,
                          [loadingChat |-> FALSE, promptInputDisabledState |-> FALSE]),
                      << EndSignal(tabId, mid) >>)

addChatResponse(ts, chatResult, tabId, isPartialResult) ==
    IF isPartialResult
    THEN Response(updateLastChatAnswer(ts, tabId, PartialUpdate(chatResult)), << >>)
    ELSE IF chatResult = EmptyResult
    THEN Response(ts, << >>)
    ELSE IF IsAuthFollowUpResult(chatResult)
    THEN Response(addChatItem(ts, tabId,
                      ChatItem(SYSTEM_PROMPT, chatResult.body, chatResult.followUp)),
                  << >>)
    ELSE LET merged == updateLastChatAnswer(ts, tabId, FinalUpdate(chatResult))
             mid == IF chatResult.messageId # Undef THEN chatResult.messageId ELSE ""
             ended == endMessageStream(merged, tabId, mid)
         IN  Response(updateStore(ended, tabId,
                          [loadingChat |-> FALSE, promptInputDisabledState |-> FALSE]),
                      << EndSignal(tabId, mid) >>)

---------------------------------------------------------------------------
(* sendGenericCommand, lines 496-517, and showError, lines 519-536 *)

Outcome(ts, sel, msgs, nts, tabId) ==
    [tabs |-> ts, selected |-> sel, out |-> msgs, notes |-> nts, tabId |-> tabId]

\* sendGenericCommand without the detour around a loading tab
sendGenericCommandSelected(ts, sel, active, body) ==
    LET got == getOrCreateTabId(ts, sel, active)
    IN  IF got.tabId = 0
        THEN Outcome(got.tabs, got.selected, << >>, got.notes, 0)
        ELSE LET r == handleChatPrompt(got.tabs, got.tabId, ChatPrompt(body, body, Undef))
             IN  Outcome(r.tabs, got.selected, got.out \o r.out, << >>, got.tabId)

sendGenericCommand(ts, sel, active, body) ==
    LET got == getOrCreateTabId(ts, sel, active)
        loading == got.tabId # 0 /\ got.tabs[got.tabId].loadingChat
        made == IF loading
                THEN createTabId(got.tabs, got.selected, active, FALSE, << >>)
                ELSE got
    IN  IF made.tabId = 0
        THEN Outcome(made.tabs, made.selected, << >>, got.notes \o
                         (IF loading THEN made.notes ELSE << >>), 0)
        ELSE LET r == handleChatPrompt(made.tabs, made.tabId, ChatPrompt(body, body, Undef))
                 created == got.out \o (IF loading THEN made.out ELSE << >>)
             IN  Outcome(r.tabs, made.selected, created \o r.out, << >>, made.tabId)

ErrorAnswer == ChatItem(ANSWER, "error", Undef)

showError(ts, sel, active, paramsTabId) ==
    LET got == getOrCreateTabId(ts, sel, active)
    IN  IF got.tabId = 0
        THEN Outcome(got.tabs, got.selected, << >>, got.notes, 0)
        ELSE LET reset == updateStore(got.tabs, got.tabId,
                              [loadingChat |-> FALSE,
                               promptInputDisabledState |-> FALSE])
             IN  Outcome(addChatItem(reset, paramsTabId, ErrorAnswer), got.selected,
                         got.out \o << Msg("error", paramsTabId, Undef) >>, << >>,
                         got.tabId)

---------------------------------------------------------------------------
(* Bounds of the model *)

ItemCount(ts) ==
    LET RECURSIVE Sum(_)
        Sum(S) == IF S = {} THEN 0
                  ELSE LET t == CHOOSE x \in S : TRUE
                       IN  Len(ts[t].chatItems) + Sum(S \ {t})
    IN  Sum(DOMAIN ts \cap ActiveIds)

\* Scope "chat": one tab at a time, a long conversation.  Scope "session":
\* and scope "commands": the tabs 1..ActiveTabs, short conversations.  Scope "tabs": up to maxTabs
\* tabs, short conversations; the tabs above ActiveTabs stay as the add-tab
\* button made them.  Scope "redirect": as "tabs", with room for a prompt
\* on each of two tabs.  Scope "streams": the tabs 1..ActiveTabs, with room
\* for a stream on each of two tabs.  Scope "stall": the tabs 1..ActiveTabs,
\* with room for one stream.
ScopeIds == IF scope = "chat" THEN {initialTabId} ELSE ActiveIds

Bounded(ts, groups) ==
    IF scope = "chat"
    THEN /\ DOMAIN ts \subseteq ScopeIds
         /\ ItemCount(ts) <= MaxItems
    ELSE IF scope \in {"session", "commands"}
    THEN /\ DOMAIN ts \subseteq ScopeIds
         /\ ItemCount(ts) <= MaxItemsFull
    ELSE IF scope = "streams"
    THEN /\ DOMAIN ts \subseteq ScopeIds
         /\ ItemCount(ts) <= MaxItemsStreams
    ELSE IF scope = "stall"
    THEN /\ DOMAIN ts \subseteq ScopeIds
         /\ ItemCount(ts) <= MaxItemsStall
    ELSE /\ ItemCount(ts) <= (IF scope = "redirect" THEN MaxItemsRedirect
                                                     ELSE MaxItemsFull)
         /\ \A t \in DOMAIN ts \ ActiveIds :
               /\ ts[t].chatItems = WelcomeItems
               /\ ~ts[t].loadingChat
               /\ ts[t].contextCommands = groups

---------------------------------------------------------------------------
(* Initial state: createMynahUi, lines 119-128 and 346-372 *)

InitWith(sc, disclaimerAcknowledged) ==
    /\ scope = sc
    /\ disclaimerCardActive = ~disclaimerAcknowledged
    /\ tabs = [t \in {initialTabId} |-> createTab(TRUE, disclaimerCardActive, << >>)]
    /\ selected = initialTabId
    /\ contextCommandGroups = 0
    /\ historyOpen = FALSE
    /\ ackSent = 0
    /\ ev = Ev("init", 0)
    /\ out = << >>
    /\ notes = << >>
    /\ signals = << >>
    /\ thrown = Undef

Init == InitWith("chat", TRUE)

InitTabs == InitWith("tabs", TRUE)

InitCommands == InitWith("commands", TRUE)

InitTrigger == InitWith("trigger", TRUE)

InitHeader == InitWith("header", TRUE)

InitRedirect == InitWith("redirect", TRUE)

InitStreams == InitWith("streams", TRUE)

\* the disclaimer is not acknowledged yet: the tabs show the card
InitStall == InitWith("stall", FALSE)

InitSession == \E disclaimerAcknowledged \in BOOLEAN :
                   InitWith("session", disclaimerAcknowledged)

---------------------------------------------------------------------------
(* UI event handlers, lines 129-344 *)

Globals == <<disclaimerCardActive, contextCommandGroups, historyOpen, ackSent, scope>>

\* the prompt input of a tab accepts a submit unless it is disabled
onChatPrompt ==
    \E tabId \in DOMAIN tabs \cap ScopeIds, prompt \in ChatPrompts :
        /\ ~tabs[tabId].promptInputDisabledState
        /\ LET r == handleChatPrompt(tabs, tabId, prompt)
           IN  /\ tabs' = r.tabs
               /\ Emits(Event("onChatPrompt", tabId, FALSE, EmptyResult, prompt, Undef, 0),
                        r.out, << >>, << >>)
        /\ Bounded(tabs', contextCommandGroups)
        /\ UNCHANGED <<selected, Globals>>

\* the follow-up options a tab shows: those of its chat items
FollowUpsShown(tabId) ==
    { tabs[tabId].chatItems[i].followUp : i \in 1..Len(tabs[tabId].chatItems) }
        \cap {"auth", "plain"}

\* the options of a follow-up group: an authentication group holds one
\* option of an authentication type, any other group an option with a
\* prompt and an option with a pill text only
FollowUpOption(type, prompt, pillText) ==
    [type |-> type, prompt |-> prompt, pillText |-> pillText]

FollowUpOptions(followUp) ==
    IF followUp = "auth"
    THEN { FollowUpOption("auth", Undef, "Authenticate") }
    ELSE { FollowUpOption(Undef, "q", "p"), FollowUpOption(Undef, Undef, "q") }

\* followUp.prompt ? followUp.prompt : followUp.pillText
FollowUpPrompt(followUp) ==
    LET prompt == IF followUp.prompt \notin {Undef, ""}
                  THEN followUp.prompt
                  ELSE followUp.pillText
    IN  ChatPrompt(prompt, prompt, Undef)

\* onFollowUpClicked that sends no follow-up-click message after the prompt
followUpClickedSilent(ts, tabId, followUp) ==
    IF followUp.type # Undef /\ isValidAuthFollowUpType(followUp.type)
    THEN Step(updateStore(ts, tabId, [promptInputDisabledState |-> FALSE]),
              << Msg("authFollowUpClicked", tabId, followUp.type) >>)
    ELSE handleChatPrompt(ts, tabId, FollowUpPrompt(followUp))

followUpClicked(ts, tabId, followUp) ==
    IF followUp.type # Undef /\ isValidAuthFollowUpType(followUp.type)
    THEN Step(updateStore(ts, tabId, [promptInputDisabledState |-> FALSE]),
              << Msg("authFollowUpClicked", tabId, followUp.type) >>)
    ELSE LET r == handleChatPrompt(ts, tabId, FollowUpPrompt(followUp))
         IN  Step(r.tabs, r.out \o << Msg("followUpClicked", tabId, followUp) >>)

onFollowUpClicked ==
    \E tabId \in DOMAIN tabs \cap ScopeIds :
      \E shown \in FollowUpsShown(tabId) :
        \E followUp \in FollowUpOptions(shown) :
          /\ LET r == followUpClicked(tabs, tabId, followUp)
             IN  /\ tabs' = r.tabs
                 /\ out' = r.out
          /\ Bounded(tabs', contextCommandGroups)
          /\ ev' = EvArg("onFollowUpClicked", tabId, FALSE, followUp, 0)
          /\ notes' = << >>
          /\ signals' = << >>
          /\ thrown' = Undef
          /\ UNCHANGED <<selected, Globals>>

\* the user's add-tab button: the toolkit opens and selects a tab holding
\* the default store (line 354), then calls the handler
onTabAdd ==
    /\ NewTabId(tabs) # 0
    /\ LET tabId == NewTabId(tabs)
           opened == WithTab(tabs, tabId, createTab(TRUE, FALSE, << >>))
       IN  /\ tabs' = tabAdd(opened, tabId, disclaimerCardActive, contextCommandGroups)
           /\ selected' = tabId
           /\ Emits(EvArg("onTabAdd", tabId, FALSE, Undef, tabId),
                    << Msg("tabAdd", tabId, Undef) >>, << >>, << >>)
    /\ Bounded(tabs', contextCommandGroups)
    /\ UNCHANGED Globals

\* the user closes a tab: the toolkit drops it and, when it was the selected
\* one, selects one of the tabs left
onTabRemove ==
    \E tabId \in DOMAIN tabs \cap ScopeIds :
        /\ tabs' = WithoutTab(tabs, tabId)
        /\ IF selected # tabId
           THEN selected' = selected
           ELSE IF DOMAIN tabs' = {}
           THEN selected' = 0
           ELSE selected' \in DOMAIN tabs'
        /\ selected' \in ActiveIds \cup {0}
        /\ Emits(Ev("onTabRemove", tabId), << Msg("tabRemove", tabId, Undef) >>,
                 << >>, << >>)
        /\ UNCHANGED Globals

onTabChange ==
    \E tabId \in DOMAIN tabs \cap ScopeIds :
        /\ tabId # selected
        /\ selected' = tabId
        /\ Emits(Ev("onTabChange", tabId), << Msg("tabChange", tabId, Undef) >>,
                 << >>, << >>)
        /\ UNCHANGED <<tabs, Globals>>

---------------------------------------------------------------------------
(* Inbound API, lines 400-617 *)

AddChatResponse ==
    \E tabId \in ScopeIds, chatResult \in ChatResults, isPartialResult \in BOOLEAN :
        /\ LET r == addChatResponse(tabs, chatResult, tabId, isPartialResult)
           IN  /\ tabs' = r.tabs
               /\ Emits(Event("addChatResponse", tabId, isPartialResult, chatResult,
                              NoPrompt, Undef, 0),
                        << >>, << >>, r.signals)
        /\ Bounded(tabs', contextCommandGroups)
        /\ UNCHANGED <<selected, Globals>>

\* a result of a stream, partial or final, for a tab that is open: every
\* result but the authentication follow-up
AddStreamResponse ==
    /\ AddChatResponse
    /\ ev'.tabId \in DOMAIN tabs
    /\ ~IsAuthFollowUpResult(ev'.result)

\* the selected tab is one of 1..ActiveTabs when the host calls these
SendGenericCommand ==
    /\ selected \in ActiveIds \cup {0}
    /\ LET r == sendGenericCommand(tabs, selected, disclaimerCardActive, "q")
       IN  /\ tabs' = r.tabs
           /\ selected' = r.selected
           /\ Emits(EvArg("sendGenericCommand", selected, FALSE, Undef, r.tabId),
                    r.out, r.notes, << >>)
    /\ Bounded(tabs', contextCommandGroups)
    /\ UNCHANGED Globals

ShowError ==
    \E paramsTabId \in ScopeIds :
        /\ selected \in ActiveIds \cup {0}
        /\ LET r == showError(tabs, selected, disclaimerCardActive, paramsTabId)
           IN  /\ tabs' = r.tabs
               /\ selected' = r.selected
               /\ Emits(EvArg("showError", paramsTabId, FALSE, Undef, r.tabId),
                        r.out, r.notes, << >>)
        /\ Bounded(tabs', contextCommandGroups)
        /\ UNCHANGED Globals

sendToPrompt(ts, sel, active) ==
    LET got == getOrCreateTabId(ts, sel, active)
    IN  IF got.tabId = 0
        THEN Outcome(got.tabs, got.selected, << >>, got.notes, 0)
        ELSE Outcome(got.tabs, got.selected,
                     got.out \o << Msg("sendToPrompt", got.tabId, Undef) >>, << >>,
                     got.tabId)

SendToPrompt ==
    /\ selected \in ActiveIds \cup {0}
    /\ LET r == sendToPrompt(tabs, selected, disclaimerCardActive)
       IN  /\ tabs' = r.tabs
           /\ selected' = r.selected
           /\ Emits(EvArg("sendToPrompt", selected, FALSE, Undef, r.tabId),
                    r.out, r.notes, << >>)
    /\ Bounded(tabs', contextCommandGroups)
    /\ UNCHANGED Globals

\* openTab, lines 538-556.  paramsTabId = 0: params.tabId is undefined;
\* messages = Undef: params.newTabOptions gives no messages
SeedMessages == << ChatItem(ANSWER, "b", Undef) >>

\* openTab that replies without selecting the tab it was given
openTabKeepsSelection(ts, sel, active, paramsTabId, messages) ==
    IF paramsTabId # 0
    THEN Outcome(ts, sel, << Msg("openTab", paramsTabId, Undef) >>, << >>,
                 paramsTabId)
    ELSE LET made == IF messages = Undef
                     THEN createTabId(ts, sel, active, TRUE, << >>)
                     ELSE createTabId(ts, sel, active, FALSE, messages)
         IN  IF made.tabId # 0
             THEN Outcome(made.tabs, made.selected,
                          made.out \o << Msg("openTab", made.tabId, Undef) >>,
                          made.notes,
                          made.tabId)
             ELSE Outcome(made.tabs, made.selected,
                          << Msg("openTab", 0, "InvalidRequest: No more tabs available") >>,
                          made.notes, 0)

openTab(ts, sel, active, paramsTabId, messages) ==
    IF paramsTabId # 0
    THEN Outcome(ts, paramsTabId, << Msg("openTab", paramsTabId, Undef) >>, << >>,
                 paramsTabId)
    ELSE LET made == IF messages = Undef
                     THEN createTabId(ts, sel, active, TRUE, << >>)
                     ELSE createTabId(ts, sel, active, FALSE, messages)
         IN  IF made.tabId # 0
             THEN Outcome(made.tabs, made.selected,
                          made.out \o << Msg("openTab", made.tabId, Undef) >>,
                          made.notes,
                          made.tabId)
             ELSE Outcome(made.tabs, made.selected,
                          << Msg("openTab", 0, "InvalidRequest: No more tabs available") >>,
                          made.notes, 0)

OpenTab ==
    \E paramsTabId \in (DOMAIN tabs \cap ActiveIds) \cup {0} :
      \E messages \in {Undef, SeedMessages} :
        /\ paramsTabId # 0 => messages = Undef
        /\ LET r == openTab(tabs, selected, disclaimerCardActive, paramsTabId, messages)
           IN  /\ tabs' = r.tabs
               /\ selected' = r.selected
               /\ Emits(EvArg("openTab", paramsTabId, messages # Undef, Undef, r.tabId),
                        r.out, r.notes, << >>)
        /\ Bounded(tabs', contextCommandGroups)
        /\ UNCHANGED Globals

---------------------------------------------------------------------------
(* Pass-through handlers, lines 130-152, 182-184 and 197-284: each sends   *)
(* one message that carries what was clicked; onSendFeedback also shows a  *)
(* notice.  None of them touches the store.                                *)

PassThroughHandlers ==
    { "onCodeInsertToCursorPosition", "onCopyCodeToClipboard", "onVote",
      "onSendFeedback", "onLinkClick", "onSourceLinkClick", "onInfoLinkClick",
      "onFileClick" }

\* the messages and notices of the handler
passThrough(handler, tabId) ==
    [out |-> << Msg(handler, tabId, Undef) >>,
     notes |-> IF handler = "onSendFeedback"
               THEN << Notice("info", "Thanks for your feedback.") >>
               ELSE << >>]

\* the user clicks in the tab that is shown
OnPassThrough ==
    \E handler \in PassThroughHandlers :
        /\ selected \in DOMAIN tabs
        /\ LET r == passThrough(handler, selected)
           IN  Emits(Ev(handler, selected), r.out, r.notes, << >>)
        /\ UNCHANGED <<tabs, selected, Globals>>

---------------------------------------------------------------------------
(* Disclaimer, lines 285-298 *)

disclaimerAcknowledgeButtonId == "amazonq-disclaimer-acknowledge-button-id"

\* Object.keys(mynahUi.getAllTabs()).forEach(... promptInputStickyCard: null)
RemoveStickyCards(ts) ==
    [t \in DOMAIN ts |-> [ts[t] EXCEPT !.promptInputStickyCard = FALSE]]

\* onInBodyButtonClicked that clears the flag and leaves the cards in place
onInBodyButtonClickedFlagOnly(ts, active, actionId) ==
    IF actionId = disclaimerAcknowledgeButtonId
    THEN [tabs |-> ts, active |-> FALSE,
          out |-> << Msg("disclaimerAcknowledged", 0, Undef) >>]
    ELSE [tabs |-> ts, active |-> active, out |-> << >>]

onInBodyButtonClicked(ts, active, actionId) ==
    IF actionId = disclaimerAcknowledgeButtonId
    THEN [tabs |-> RemoveStickyCards(ts), active |-> FALSE,
          out |-> << Msg("disclaimerAcknowledged", 0, Undef) >>]
    ELSE [tabs |-> ts, active |-> active, out |-> << >>]

\* ackSent counts the disclaimer-acknowledged messages sent so far
OnInBodyButtonClicked ==
    \E tabId \in DOMAIN tabs \cap ActiveIds :
      \E actionId \in {disclaimerAcknowledgeButtonId, "other"} :
        /\ ackSent < MaxAcks
        /\ LET r == onInBodyButtonClicked(tabs, disclaimerCardActive, actionId)
           IN  /\ tabs' = r.tabs
               /\ disclaimerCardActive' = r.active
               /\ ackSent' = ackSent + Len(r.out)
               /\ Emits(EvArg("onInBodyButtonClicked", tabId,
                              tabs[tabId].promptInputStickyCard, actionId, 0),
                        r.out, << >>, << >>)
        /\ UNCHANGED <<selected, contextCommandGroups, historyOpen, scope>>

---------------------------------------------------------------------------
(* sendContextCommands, lines 569-580 *)

\* Object.keys(mynahUi.getAllTabs()).forEach(... contextCommands ...)
sendContextCommands(ts, groups) ==
    [t \in DOMAIN ts |-> [ts[t] EXCEPT !.contextCommands = groups]]

SendContextCommands ==
    \E groups \in 1..MaxCtx :
        /\ contextCommandGroups' = groups
        /\ tabs' = sendContextCommands(tabs, groups)
        /\ Emits(EvArg("sendContextCommands", 0, FALSE, groups, 0), << >>, << >>, << >>)
        /\ UNCHANGED <<selected, disclaimerCardActive, historyOpen, ackSent, scope>>

\* the first snapshot of the context commands the backend sends
FirstContextCommands ==
    /\ SendContextCommands
    /\ contextCommandGroups' = 1

\* a click on a button of the disclaimer card while the card is shown
AcknowledgeShownCard ==
    /\ OnInBodyButtonClicked
    /\ disclaimerCardActive

---------------------------------------------------------------------------
(* onTabBarButtonClick, lines 337-343 *)

\* ChatHistory.TabBarButtonId
TabBarButtonId == "history_sheet"

Clicked(msgs, error) == [out |-> msgs, thrown |-> error]

\* onTabBarButtonClick that ignores a button it does not know
onTabBarButtonClickLenient(buttonId) ==
    IF buttonId = TabBarButtonId
    THEN Clicked(<< Msg("listConversations", 0, Undef) >>, Undef)
    ELSE Clicked(<< >>, Undef)

onTabBarButtonClick(buttonId) ==
    IF buttonId = TabBarButtonId
    THEN Clicked(<< Msg("listConversations", 0, Undef) >>, Undef)
    ELSE Clicked(<< >>, <<"Unhandled tab bar button id: ", buttonId>>)

OnTabBarButtonClick ==
    \E tabId \in DOMAIN tabs \cap ActiveIds :
      \E buttonId \in {TabBarButtonId, "export"} :
        /\ LET r == onTabBarButtonClick(buttonId)
           IN  /\ out' = r.out
               /\ thrown' = r.thrown
        /\ ev' = EvArg("onTabBarButtonClick", tabId, FALSE, buttonId, 0)
        /\ notes' = << >>
        /\ signals' = << >>
        /\ UNCHANGED <<tabs, selected, Globals>>

---------------------------------------------------------------------------
(* History overlay, lines 582-605 *)

\* chatHistoryList.show(params): renders the overlay
ListConversations ==
    /\ historyOpen' = TRUE
    /\ Emits(Ev("listConversations", 0), << >>, << >>, << >>)
    /\ UNCHANGED <<tabs, selected, disclaimerCardActive, contextCommandGroups,
                   ackSent, scope>>

\* conversationClicked that closes the overlay after every success
conversationClickedCloses(open, success, action) ==
    IF ~success
    THEN [open |-> open, out |-> << >>,
          notes |-> << Notice("error",
                        <<"Failed to ", IF action # Undef THEN action ELSE "open",
                          " the history">>) >>]
    ELSE IF action = "delete"
    THEN [open |-> FALSE, out |-> << Msg("listConversations", 0, Undef) >>,
          notes |-> << >>]
    ELSE [open |-> FALSE, out |-> << >>, notes |-> << >>]

conversationClicked(open, success, action) ==
    IF ~success
    THEN [open |-> open, out |-> << >>,
          notes |-> << Notice("error",
                        <<"Failed to ", IF action # Undef THEN action ELSE "open",
                          " the history">>) >>]
    ELSE IF action = Undef
    THEN [open |-> FALSE, out |-> << >>, notes |-> << >>]
    ELSE IF action = "delete"
    THEN [open |-> open, out |-> << Msg("listConversations", 0, Undef) >>,
          notes |-> << >>]
    ELSE [open |-> open, out |-> << >>, notes |-> << >>]

ConversationClicked ==
    \E success \in BOOLEAN, action \in {Undef, "delete", "export"} :
        /\ LET r == conversationClicked(historyOpen, success, action)
           IN  /\ historyOpen' = r.open
               /\ Emits(EvArg("conversationClicked", 0, success, action, 0),
                        r.out, r.notes, << >>)
        /\ UNCHANGED <<tabs, selected, disclaimerCardActive, contextCommandGroups,
                       ackSent, scope>>

---------------------------------------------------------------------------
(* QChatTriggerContext.#guessIntentFromPrompt, part_000 lines 95-109.      *)
(* A prompt is the sequence of its characters.                             *)

LowerCase == <<"a","b","c","d","e","f","g","h","i","j","k","l","m",
               "n","o","p","q","r","s","t","u","v","w","x","y","z">>
UpperCase == <<"A","B","C","D","E","F","G","H","I","J","K","L","M",
               "N","O","P","Q","R","S","T","U","V","W","X","Y","Z">>

\* the /i flag: both sides are compared by their upper case
Canonicalize(ch) ==
    IF \E i \in DOMAIN LowerCase : LowerCase[i] = ch
    THEN UpperCase[CHOOSE i \in DOMAIN LowerCase : LowerCase[i] = ch]
    ELSE ch

\* /^pattern/i.test(prompt): ^ is the start of the input
TestAtStart(pattern, prompt) ==
    /\ Len(prompt) >= Len(pattern)
    /\ \A i \in 1..Len(pattern) :
           Canonicalize(prompt[i]) = Canonicalize(pattern[i])

\* /^pattern/.test(prompt), the flag i left out
TestAtStartExact(pattern, prompt) ==
    /\ Len(prompt) >= Len(pattern)
    /\ \A i \in 1..Len(pattern) : prompt[i] = pattern[i]

explain == <<"e","x","p","l","a","i","n">>
refactor == <<"r","e","f","a","c","t","o","r">>
fix == <<"f","i","x">>
optimize == <<"o","p","t","i","m","i","z","e">>

\* guessIntentFromPrompt with case-sensitive patterns
guessIntentFromPromptExact(prompt) ==
    IF prompt = Undef THEN Undef
    ELSE IF TestAtStartExact(explain, prompt) THEN "EXPLAIN_CODE_SELECTION"
    ELSE IF TestAtStartExact(refactor, prompt) THEN "SUGGEST_ALTERNATE_IMPLEMENTATION"
    ELSE IF TestAtStartExact(fix, prompt) THEN "APPLY_COMMON_BEST_PRACTICES"
    ELSE IF TestAtStartExact(optimize, prompt) THEN "IMPROVE_CODE"
    ELSE Undef

guessIntentFromPrompt(prompt) ==
    IF prompt = Undef THEN Undef
    ELSE IF TestAtStart(explain, prompt) THEN "EXPLAIN_CODE_SELECTION"
    ELSE IF TestAtStart(refactor, prompt) THEN "SUGGEST_ALTERNATE_IMPLEMENTATION"
    ELSE IF TestAtStart(fix, prompt) THEN "APPLY_COMMON_BEST_PRACTICES"
    ELSE IF TestAtStart(optimize, prompt) THEN "IMPROVE_CODE"
    ELSE Undef

\* the prompts explored: a keyword in lower case, in upper case, capitalised
\* or cut short, after nothing, a blank, a line break or a word, and before
\* nothing, more letters or another keyword
ToUpper(str) == [i \in 1..Len(str) |-> Canonicalize(str[i])]
Capitalised(str) == << Canonicalize(str[1]) >> \o Tail(str)

Keywords == {explain, refactor, fix, optimize}

PromptWords ==
    UNION { {k, ToUpper(k), Capitalised(k), SubSeq(k, 1, Len(k) - 1)} : k \in Keywords }
        \cup { << >> }

PromptLeads == { << >>, <<" ">>, <<"\n">>, <<"p","l","e","a","s","e"," ">> }

PromptTails == { << >>, <<"s">>, <<" ","i","t">>, <<" ","f","i","x">> }

Prompts ==
    { lead \o word \o tail :
        lead \in PromptLeads, word \in PromptWords, tail \in PromptTails }

Guessed(prompt) ==
    /\ Emits(EvArg("guessIntentFromPrompt", 0, FALSE, prompt, 0),
             << guessIntentFromPrompt(prompt) >>, << >>, << >>)
    /\ UNCHANGED <<tabs, selected, Globals>>

GuessIntent ==
    \/ \E prompt \in Prompts : Guessed(prompt)
    \/ Guessed(Undef)

---------------------------------------------------------------------------
(* QChatTriggerContext.getChatParamsFromTrigger, part_000 lines 32-74 *)

\* a && b on operands that are undefined, a string or an object
Truthy(x) == x \notin {Undef, ""}

TriggerContext(cursorState, relativeFilePath, userIntent) ==
    [cursorState |-> cursorState, relativeFilePath |-> relativeFilePath,
     text |-> "text", programmingLanguage |-> "typescript",
     userIntent |-> userIntent]

\* tools = Undef: the argument is not supplied
ChatParams(prompt, escapedPrompt, triggerContext, tools) ==
    [prompt |-> ChatPrompt(prompt, escapedPrompt, Undef),
     triggerContext |-> triggerContext, tools |-> tools]

EditorState(triggerContext) ==
    [cursorState |-> triggerContext.cursorState,
     text |-> triggerContext.text,
     programmingLanguage |-> triggerContext.programmingLanguage,
     relativeFilePath |-> triggerContext.relativeFilePath]

\* userInputMessageContext: { editorState, tools } or { tools }
WithEditorState(triggerContext, tools) ==
    [editorState |-> EditorState(triggerContext), tools |-> tools]

ToolsOnly(tools) == [tools |-> tools]

SendMessageCommandInput(content, userInputMessageContext, userIntent) ==
    [chatTriggerType |-> "MANUAL", content |-> content,
     userInputMessageContext |-> userInputMessageContext,
     userIntent |-> userIntent, origin |-> "IDE",
     customizationArn |-> "arn:c", profileArn |-> "arn:p"]

\* getChatParamsFromTrigger that sends the editor state for a cursor alone
getChatParamsFromTriggerCursor(prompt, triggerContext, suppliedTools) ==
    LET tools == IF suppliedTools = Undef THEN << >> ELSE suppliedTools
    IN  SendMessageCommandInput(
            IF prompt.escapedPrompt # Undef THEN prompt.escapedPrompt
                                           ELSE prompt.prompt,
            IF Truthy(triggerContext.cursorState)
            THEN WithEditorState(triggerContext, tools) ELSE ToolsOnly(tools),
            triggerContext.userIntent)

getChatParamsFromTrigger(prompt, triggerContext, suppliedTools) ==
    LET tools == IF suppliedTools = Undef THEN << >> ELSE suppliedTools
    IN  SendMessageCommandInput(
            IF prompt.escapedPrompt # Undef THEN prompt.escapedPrompt
                                           ELSE prompt.prompt,
            IF Truthy(triggerContext.cursorState)
               /\ Truthy(triggerContext.relativeFilePath)
            THEN WithEditorState(triggerContext, tools) ELSE ToolsOnly(tools),
            triggerContext.userIntent)

TriggerContexts ==
    { TriggerContext(cursorState, relativeFilePath, userIntent) :
        cursorState \in {Undef, "0:0"},
        relativeFilePath \in {Undef, "src/a.ts"},
        userIntent \in {Undef, "EXPLAIN_CODE_SELECTION", "IMPROVE_CODE"} }

GetChatParams ==
    \E escapedPrompt \in {Undef, "", "a&lt;b"},
       triggerContext \in TriggerContexts,
       tools \in {Undef, "none", "fsRead"} :
        LET supplied == IF tools = "none" THEN << >>
                        ELSE IF tools = "fsRead" THEN << "fsRead" >>
                        ELSE Undef
            params == ChatParams("a<b", escapedPrompt, triggerContext, supplied)
        IN  /\ Emits(EvArg("getChatParamsFromTrigger", 0, supplied # Undef, params, 0),
                     << getChatParamsFromTrigger(params.prompt, triggerContext,
                                                 supplied) >>,
                     << >>, << >>)
            /\ UNCHANGED <<tabs, selected, Globals>>

---------------------------------------------------------------------------
(* The label of a context-list file detail, addChatResponse lines 417-424. *)
(* A label is the sequence of its characters.                              *)

DigitChars == <<"0","1","2","3","4","5","6","7","8","9">>

\* `${n}`: the decimal digits of a number, after a minus sign when negative
RECURSIVE Digits(_)
Digits(n) ==
    IF n < 10 THEN << DigitChars[n + 1] >>
    ELSE Digits(n \div 10) \o << DigitChars[(n % 10) + 1] >>

NumberToString(n) == IF n < 0 THEN <<"-">> \o Digits(-n) ELSE Digits(n)

Range(first, second) == [first |-> first, second |-> second]

\* the label of one range with the word 'line' before the second line too
RangeLabelLineTwice(range) ==
    IF range.first = -1 \/ range.second = -1
    THEN << >>
    ELSE <<"l","i","n","e"," ">> \o NumberToString(range.first)
             \o <<" ","-"," ","l","i","n","e"," ">> \o NumberToString(range.second)

\* range.first === -1 || range.second === -1 ? '' : `line ${first} - ${second}`
RangeLabel(range) ==
    IF range.first = -1 \/ range.second = -1
    THEN << >>
    ELSE <<"l","i","n","e"," ">> \o NumberToString(range.first)
             \o <<" ","-"," ">> \o NumberToString(range.second)

\* Array.prototype.join(', ')
RECURSIVE Join(_)
Join(labels) ==
    IF Len(labels) = 0 THEN << >>
    ELSE IF Len(labels) = 1 THEN labels[1]
    ELSE labels[1] \o <<",", " ">> \o Join(Tail(labels))

\* fileDetails.lineRanges?.map(...).join(', ') || ''
DetailLabel(lineRanges) ==
    IF lineRanges = Undef
    THEN << >>
    ELSE Join([i \in 1..Len(lineRanges) |-> RangeLabel(lineRanges[i])])

\* the last lines explored: unknown (-1), one digit, two digits
Lines == {-1, 3, 10}

\* a range starts at one of these or at line 0
Ranges == { Range(first, second) : first \in Lines \cup {0}, second \in Lines }

RECURSIVE RangeLists(_)
RangeLists(n) ==
    IF n = 0 THEN { << >> }
    ELSE LET shorter == RangeLists(n - 1)
         IN  shorter \cup { Append(l, r) : l \in { x \in shorter : Len(x) = n - 1 },
                                           r \in Ranges }

Labelled(lineRanges) ==
    /\ Emits(EvArg("fileDetailLabel", 0, FALSE, lineRanges, 0),
             << DetailLabel(lineRanges) >>, << >>, << >>)
    /\ UNCHANGED <<tabs, selected, Globals>>

FileDetailLabel ==
    \/ \E lineRanges \in RangeLists(MaxRanges) : Labelled(lineRanges)
    \/ Labelled(Undef)

---------------------------------------------------------------------------
(* Specifications *)

Next ==
    \/ onChatPrompt
    \/ onFollowUpClicked
    \/ onTabAdd
    \/ onTabRemove
    \/ AddChatResponse
    \/ SendGenericCommand
    \/ ShowError

Spec == Init /\ [][Next]_vars

NextTabs ==
    \/ onChatPrompt
    \/ onTabAdd
    \/ onTabRemove
    \/ onTabChange
    \/ SendGenericCommand
    \/ ShowError
    \/ SendToPrompt
    \/ OpenTab

SpecTabs == InitTabs /\ [][NextTabs]_vars

NextSession ==
    \/ onChatPrompt
    \/ onTabAdd
    \/ onTabRemove
    \/ onTabChange
    \/ SendToPrompt
    \/ OpenTab
    \/ OnInBodyButtonClicked
    \/ OnTabBarButtonClick
    \/ ListConversations
    \/ ConversationClicked

SpecSession == InitSession /\ [][NextSession]_vars

\* the context commands of the tabs, over every way a tab is made
NextCommands ==
    \/ SendContextCommands
    \/ onChatPrompt
    \/ onTabAdd
    \/ onTabRemove
    \/ onTabChange
    \/ SendGenericCommand
    \/ SendToPrompt
    \/ OpenTab

SpecCommands == InitCommands /\ [][NextCommands]_vars

\* streams of several tabs: prompts and results in any order, while the
\* user moves between the tabs
NextStreams ==
    \/ onChatPrompt
    \/ onTabAdd
    \/ onTabChange
    \/ AddStreamResponse

SpecStreams == InitStreams /\ [][NextStreams]_vars

\* what can happen to a tab whose stream has stalled, in a session in which
\* no error is reported
NextStall ==
    \/ onChatPrompt
    \/ onTabAdd
    \/ onTabRemove
    \/ onTabChange
    \/ AddStreamResponse
    \/ FirstContextCommands
    \/ ListConversations
    \/ ConversationClicked
    \/ AcknowledgeShownCard
    \/ OnPassThrough

SpecStall == InitStall /\ [][NextStall]_vars

\* commands of the host that pick their tab: the selected one, or a new one
NextRedirect ==
    \/ onChatPrompt
    \/ onTabAdd
    \/ onTabRemove
    \/ onTabChange
    \/ SendGenericCommand

SpecRedirect == InitRedirect /\ [][NextRedirect]_vars

\* the request context builder: its functions applied to their inputs
NextTrigger ==
    \/ GuessIntent
    \/ GetChatParams

SpecTrigger == InitTrigger /\ [][NextTrigger]_vars

\* the header of a chat response: the labels of its file details
NextHeader ==
    \/ FileDetailLabel

SpecHeader == InitHeader /\ [][NextHeader]_vars

---------------------------------------------------------------------------
(* Vocabulary of the properties *)

Items(ts, t) == ts[t].chatItems

LastItem(ts, t) == Items(ts, t)[Len(Items(ts, t))]

\* the streaming-answer items of a tab that no end-of-stream signal ended
OpenStreams(ts, t) ==
    { i \in 1..Len(Items(ts, t)) : Items(ts, t)[i].type = ANSWER_STREAM }

\* the items of the current turn: those after the last prompt item
TurnStart(ts, t) ==
    LET P == { i \in 1..Len(Items(ts, t)) : Items(ts, t)[i].type = PROMPT }
    IN  IF P = {} THEN 0 ELSE CHOOSE i \in P : \A j \in P : j <= i

TerminalAnswers(ts, t) ==
    { i \in (TurnStart(ts, t) + 1)..Len(Items(ts, t)) : Items(ts, t)[i].type = ANSWER }

SameFlags(t) ==
    /\ tabs'[t].loadingChat = tabs[t].loadingChat
    /\ tabs'[t].promptInputDisabledState = tabs[t].promptInputDisabledState

IsFinalResponse(e) == e.op = "addChatResponse" /\ ~e.flag

IsPartialResponse(e) == e.op = "addChatResponse" /\ e.flag

IsFinalizing(chatResult) ==
    chatResult # EmptyResult /\ ~IsAuthFollowUpResult(chatResult)

---------------------------------------------------------------------------
(* C1 *)

\* C1 as stated: after any final addChatResponse for tab T, whatever the
\* result holds, T has loadingChat = false and promptInputDisabledState =
\* false and its turn (the items after its last prompt) holds exactly one
\* terminal answer item.
C1_FinalAlwaysResets ==
    (IsFinalResponse(ev) /\ ev.tabId \in DOMAIN tabs) =>
        /\ ~tabs[ev.tabId].loadingChat
        /\ ~tabs[ev.tabId].promptInputDisabledState
        /\ TurnStart(tabs, ev.tabId) > 0 =>
               Cardinality(TerminalAnswers(tabs, ev.tabId)) = 1

\* C1 amended: a final addChatResponse for tab T whose result is neither the
\* empty object nor an authentication follow-up leaves loadingChat = false
\* and promptInputDisabledState = false and, when T's last item was the
\* active stream, ends it: no item is added and T's turn holds exactly one
\* terminal answer item, the last one.  A final result that is empty or an
\* authentication follow-up leaves both flags as they were.
C1_FinalizingResultResets ==
    [][(IsFinalResponse(ev') /\ ev'.tabId \in DOMAIN tabs) =>
        LET T == ev'.tabId
        IN  IF IsFinalizing(ev'.result)
            THEN /\ ~tabs'[T].loadingChat
                 /\ ~tabs'[T].promptInputDisabledState
                 /\ HasActiveStream(tabs, T) =>
                       /\ Len(Items(tabs', T)) = Len(Items(tabs, T))
                       /\ LastItem(tabs', T).type = ANSWER
                       /\ Cardinality(TerminalAnswers(tabs', T)) = 1
            ELSE SameFlags(T)]_vars

C1_Witness ==
    /\ IsFinalResponse(ev)
    /\ IsFinalizing(ev.result)
    /\ ev.tabId \in DOMAIN tabs
    /\ Len(Items(tabs, ev.tabId)) >= 2
    /\ LastItem(tabs, ev.tabId) = ChatItem(ANSWER, "b", "plain")
    /\ Items(tabs, ev.tabId)[Len(Items(tabs, ev.tabId)) - 1].type = PROMPT
    /\ ~tabs[ev.tabId].loadingChat
    /\ signals = << EndSignal(ev.tabId, "m") >>

---------------------------------------------------------------------------
(* C2 *)

\* C2: in every reachable state and for every tab, loadingChat is true
\* exactly when the tab holds a streaming-answer item that was not ended.
C2_LoadingIffOpenStream ==
    \A t \in DOMAIN tabs : tabs[t].loadingChat <=> OpenStreams(tabs, t) # {}

---------------------------------------------------------------------------
(* C3 *)

\* C3: in every reachable state each tab holds at most one streaming-answer
\* item that was not ended: none is appended while an earlier one is open.
C3_AtMostOneOpenStream ==
    \A t \in DOMAIN tabs : Cardinality(OpenStreams(tabs, t)) <= 1

---------------------------------------------------------------------------
(* C4 *)

\* C4: while tab T is Streaming (loadingChat, its last item the active
\* stream), a partial addChatResponse for T rewrites the content of T's last
\* item in place: the number of items and every other item are unchanged,
\* the last item stays the one streaming answer, no end-of-stream signal is
\* issued, and loadingChat and promptInputDisabledState are unchanged.
C4_PartialRewritesInPlace ==
    [][(IsPartialResponse(ev') /\ ev'.tabId \in DOMAIN tabs
            /\ tabs[ev'.tabId].loadingChat /\ HasActiveStream(tabs, ev'.tabId)) =>
        LET T == ev'.tabId
            n == Len(Items(tabs, T))
            r == ev'.result
        IN  /\ Len(Items(tabs', T)) = n
            /\ \A i \in 1..(n - 1) : Items(tabs', T)[i] = Items(tabs, T)[i]
            /\ LastItem(tabs', T).type = ANSWER_STREAM
            /\ OpenStreams(tabs', T) = OpenStreams(tabs, T)
            /\ LastItem(tabs', T).body =
                   IF r.body # Undef THEN r.body ELSE LastItem(tabs, T).body
            /\ LastItem(tabs', T).followUp =
                   IF r.followUp # Undef THEN r.followUp ELSE LastItem(tabs, T).followUp
            /\ signals' = << >>
            /\ SameFlags(T)]_vars

C4_Witness ==
    /\ IsPartialResponse(ev)
    /\ ev.result.body = "b"
    /\ ev.tabId \in DOMAIN tabs
    /\ tabs[ev.tabId].loadingChat
    /\ HasActiveStream(tabs, ev.tabId)
    /\ LastItem(tabs, ev.tabId).body = "b"

---------------------------------------------------------------------------
(* C5 *)

\* the handler call e, made in the current state, asks createTabId for a tab
AsksForTab(e) ==
    \/ e.op = "openTab" /\ e.tabId = 0
    \/ e.op = "sendGenericCommand" /\ (selected = 0 \/ tabs[selected].loadingChat)
    \/ e.op \in {"showError", "sendToPrompt"} /\ selected = 0

\* C5: a tab creation attempted while maxTabs tabs are open fails: it gives
\* no tab id, the one notice shown is the no-more-tabs warning, no tab is
\* added and neither the store of any tab nor the selection changes; the
\* number of open tabs never exceeds maxTabs.
C5_CreationAtCapFails ==
    [][/\ Cardinality(DOMAIN tabs') <= maxTabs
       /\ (Cardinality(DOMAIN tabs) = maxTabs /\ AsksForTab(ev')) =>
             /\ ev'.ret = 0
             /\ notes' = << Notice("warning", noMoreTabsTooltip) >>
             /\ tabs' = tabs
             /\ selected' = selected]_vars

C5_Witness ==
    /\ Cardinality(DOMAIN tabs) = maxTabs
    /\ ev.op = "sendGenericCommand"
    /\ selected # 0
    /\ tabs[selected].loadingChat
    /\ ev.ret = 0
    /\ Len(notes) = 1

---------------------------------------------------------------------------
(* C6 *)

IsClear(e) == e.op = "onChatPrompt" /\ e.prompt.command = "/clear"

\* C6 as stated: submitting /clear empties the tab's chat items and emits no
\* outbound message of any kind.
C6_ClearEmitsNothing ==
    IsClear(ev) => (Items(tabs, ev.tabId) = << >> /\ out = << >>)

\* C6 amended: submitting /clear empties the tab's chat items, appends no
\* prompt and no streaming item, leaves loadingChat and
\* promptInputDisabledState as they were, and emits exactly one outbound
\* message: the quick-action-command message for /clear with the tab's id
\* (and no new-conversation-turn message).
C6_ClearSendsQuickAction ==
    [][IsClear(ev') =>
        /\ Items(tabs', ev'.tabId) = << >>
        /\ SameFlags(ev'.tabId)
        /\ out' = << Msg("quickActionCommand", ev'.tabId, "/clear") >>]_vars

C6_Witness ==
    /\ IsClear(ev)
    /\ Items(tabs, ev.tabId) = << >>
    /\ tabs[ev.tabId].loadingChat
    /\ Len(out) = 1

---------------------------------------------------------------------------
(* C7 *)

IsFreeText(e) == e.op = "onChatPrompt" /\ e.prompt.command = Undef

\* C7: a free-text prompt submit on tab T appends exactly one prompt item
\* and then one empty streaming-answer item, T's last item afterwards, sets
\* loadingChat = true and promptInputDisabledState = true, and emits exactly
\* one message: the new-conversation-turn message with the prompt and T's
\* id (so no quick-action-command message).
C7_FreeTextPromptStartsStream ==
    [][IsFreeText(ev') =>
        LET T == ev'.tabId
        IN  /\ Items(tabs', T) =
                   Items(tabs, T) \o << ChatItem(PROMPT, ev'.prompt.escapedPrompt, Undef),
                                        ChatItem(ANSWER_STREAM, Undef, Undef) >>
            /\ tabs'[T].loadingChat
            /\ tabs'[T].promptInputDisabledState
            /\ out' = << Msg("chatPrompt", T, ev'.prompt.prompt) >>]_vars

C7_Witness ==
    /\ IsFreeText(ev)
    /\ HasActiveStream(tabs, ev.tabId)
    /\ tabs[ev.tabId].loadingChat
    /\ tabs[ev.tabId].promptInputDisabledState
    /\ out = << Msg("chatPrompt", ev.tabId, "a<b") >>
    /\ LastItem(tabs, ev.tabId).type = ANSWER_STREAM

---------------------------------------------------------------------------
(* C8 *)

NoStickyCard(ts) == \A t \in DOMAIN ts : ~ts[t].promptInputStickyCard

IsAcknowledge(e) ==
    e.op = "onInBodyButtonClicked" /\ e.arg = disclaimerAcknowledgeButtonId

\* C8: a click of the acknowledge button leaves the disclaimer flag false
\* and no tab with a sticky card; the handler applied twice gives the state
\* it gives applied once; and once the flag is false it stays false and no
\* tab, the ones created afterwards by the add-tab button, by openTab or by
\* get-or-create included, has a sticky card.
C8_AcknowledgeIdempotent ==
    [][/\ IsAcknowledge(ev') => (~disclaimerCardActive' /\ NoStickyCard(tabs'))
       /\ LET once == onInBodyButtonClicked(tabs, disclaimerCardActive,
                                            disclaimerAcknowledgeButtonId)
              twice == onInBodyButtonClicked(once.tabs, once.active,
                                             disclaimerAcknowledgeButtonId)
          IN  twice.tabs = once.tabs /\ twice.active = once.active
       /\ ~disclaimerCardActive => (~disclaimerCardActive' /\ NoStickyCard(tabs'))]_vars

C8_Witness ==
    /\ IsAcknowledge(ev)
    /\ ev.flag
    /\ ackSent = 1
    /\ Cardinality(DOMAIN tabs) >= 2
    /\ ~disclaimerCardActive
    /\ NoStickyCard(tabs)

---------------------------------------------------------------------------
(* C9 *)

\* C9: over any sequence of events the disclaimer-acknowledged message is
\* emitted at most once.
C9_AcknowledgedSentOnce == ackSent <= 1

---------------------------------------------------------------------------
(* C10 *)

IsClicked(e) == e.op = "conversationClicked"

\* C10: conversationClicked with success and action 'delete' emits exactly
\* one list-conversations request and leaves the overlay as it is; with
\* success and no action it closes the overlay and emits nothing; without
\* success it leaves the overlay as it is, emits no request and shows
\* exactly one error notice naming the action, 'open' when none is given.
C10_ConversationClicked ==
    [][IsClicked(ev') =>
        /\ (ev'.flag /\ ev'.arg = "delete") =>
              /\ out' = << Msg("listConversations", 0, Undef) >>
              /\ notes' = << >>
              /\ historyOpen' = historyOpen
        /\ (ev'.flag /\ ev'.arg = Undef) =>
              /\ ~historyOpen'
              /\ out' = << >>
              /\ notes' = << >>
        /\ ~ev'.flag =>
              /\ historyOpen' = historyOpen
              /\ out' = << >>
              /\ notes' = << Notice("error",
                               <<"Failed to ",
                                 IF ev'.arg = Undef THEN "open" ELSE ev'.arg,
                                 " the history">>) >>]_vars

C10_Witness ==
    /\ IsClicked(ev)
    /\ ev.flag
    /\ ev.arg = "delete"
    /\ historyOpen
    /\ out = << Msg("listConversations", 0, Undef) >>

---------------------------------------------------------------------------
(* C11 *)

IsFollowUpClick(e) == e.op = "onFollowUpClicked"

IsAuthOption(followUp) ==
    followUp.type # Undef /\ isValidAuthFollowUpType(followUp.type)

\* the text a follow-up option submits: its prompt, or its pill text
OptionText(followUp) ==
    IF followUp.prompt # Undef THEN followUp.prompt ELSE followUp.pillText

\* C11: a click on a follow-up option of tab T dispatches on the option's
\* type.  An authentication option emits exactly one auth-followup message,
\* sets promptInputDisabledState to false and leaves T's items as they are
\* (no prompt item, no streaming item, no new-conversation-turn and no
\* follow-up-click message).  Any other option submits its prompt text, or
\* its pill text when it has no prompt, as a free-text prompt does: a
\* prompt item with that text and an empty streaming item are appended, both
\* flags are set, one new-conversation-turn message carries the text, and
\* exactly one follow-up-click message follows it.
C11_FollowUpClickDispatch ==
    [][IsFollowUpClick(ev') =>
        LET T == ev'.tabId
            followUp == ev'.arg
        IN  IF IsAuthOption(followUp)
            THEN /\ out' = << Msg("authFollowUpClicked", T, followUp.type) >>
                 /\ ~tabs'[T].promptInputDisabledState
                 /\ tabs'[T].loadingChat = tabs[T].loadingChat
                 /\ Items(tabs', T) = Items(tabs, T)
            ELSE /\ Items(tabs', T) =
                        Items(tabs, T) \o
                            << ChatItem(PROMPT, OptionText(followUp), Undef),
                               ChatItem(ANSWER_STREAM, Undef, Undef) >>
                 /\ tabs'[T].loadingChat
                 /\ tabs'[T].promptInputDisabledState
                 /\ out' = << Msg("chatPrompt", T, OptionText(followUp)),
                              Msg("followUpClicked", T, followUp) >>]_vars

\* a click on an option that has a pill text only
C11_Witness ==
    /\ IsFollowUpClick(ev)
    /\ ~IsAuthOption(ev.arg)
    /\ ev.arg.prompt = Undef
    /\ Len(out) = 2
    /\ ev.arg.pillText = "q"
    /\ out[1].data = "q"
    /\ HasActiveStream(tabs, ev.tabId)

---------------------------------------------------------------------------
(* C12 *)

SameCommands(ts, groups) == \A t \in DOMAIN ts : ts[t].contextCommands = groups

---------------------------------------------------------------------------
(* C13 *)

IsTabBarClick(e) == e.op = "onTabBarButtonClick"

Unchanged(v) == v' = v

\* C13: a tab-bar button click with the history button id emits exactly one
\* list-conversations message, throws nothing and changes no tab; a click
\* with any other button id throws an error naming the button, emits no
\* message and changes neither the tabs nor any other state of the client.
C13_TabBarButtonClick ==
    [][IsTabBarClick(ev') =>
        /\ tabs' = tabs
        /\ selected' = selected
        /\ Unchanged(Globals)
        /\ notes' = << >>
        /\ IF ev'.arg = TabBarButtonId
           THEN out' = << Msg("listConversations", 0, Undef) >> /\ thrown' = Undef
           ELSE out' = << >> /\ thrown' # Undef]_vars

C13_Witness ==
    /\ IsTabBarClick(ev)
    /\ ev.arg = "export"
    /\ thrown = <<"Unhandled tab bar button id: ", "export">>
    /\ out = << >>

---------------------------------------------------------------------------
(* C14 *)

ToLower(str) ==
    [i \in 1..Len(str) |->
        IF \E j \in DOMAIN UpperCase : UpperCase[j] = str[i]
        THEN LowerCase[CHOOSE j \in DOMAIN UpperCase : UpperCase[j] = str[i]]
        ELSE str[i]]

StartsWith(str, word) ==
    Len(str) >= Len(word) /\ ToLower(SubSeq(str, 1, Len(word))) = word

PriorityOrder ==
    << <<explain, "EXPLAIN_CODE_SELECTION">>,
       <<refactor, "SUGGEST_ALTERNATE_IMPLEMENTATION">>,
       <<fix, "APPLY_COMMON_BEST_PRACTICES">>,
       <<optimize, "IMPROVE_CODE">> >>

\* the intent of the first pattern, in priority order, the prompt starts with
FirstMatch(str) ==
    LET M == { i \in DOMAIN PriorityOrder : StartsWith(str, PriorityOrder[i][1]) }
    IN  IF M = {} THEN Undef
        ELSE PriorityOrder[CHOOSE i \in M : \A j \in M : i <= j][2]

IsGuess(e) == e.op = "guessIntentFromPrompt"

\* C14: the intent guessed for a prompt is that of the first of explain,
\* refactor, fix, optimize (in this order) that the prompt starts with, the
\* case of the letters ignored; a prompt that starts with none of them, one
\* that holds a keyword further on included, and an undefined prompt give
\* no intent.
C14_IntentByPrefix ==
    IsGuess(ev) =>
        out = << IF ev.arg = Undef THEN Undef ELSE FirstMatch(ev.arg) >>

\* "Refactor it" gives the refactor intent
C14_Witness ==
    /\ IsGuess(ev)
    /\ ev.arg = Capitalised(refactor) \o <<" ","i","t">>
    /\ out = << "SUGGEST_ALTERNATE_IMPLEMENTATION" >>

\* "please explain" gives no intent
C14_WitnessNoIntent ==
    /\ IsGuess(ev)
    /\ ev.arg = <<"p","l","e","a","s","e"," ">> \o explain
    /\ out = << Undef >>

---------------------------------------------------------------------------
(* C15 *)

IsGetChatParams(e) == e.op = "getChatParamsFromTrigger"

\* C15: the request built by getChatParamsFromTrigger holds an editor-state
\* block, made of the trigger context's cursor state, text, language and
\* relative path, exactly when the trigger context has both a cursor state
\* and a relative file path; in every case it holds the tool list, empty
\* when none is supplied, the origin 'IDE', and as content the escaped
\* prompt when one is supplied and the raw prompt otherwise.
C15_ChatParamsFromTrigger ==
    IsGetChatParams(ev) =>
        LET params == ev.arg
            ctx == params.triggerContext
            data == out[1]
            context == data.userInputMessageContext
            hasBoth == ctx.cursorState # Undef /\ ctx.relativeFilePath # Undef
        IN  /\ Len(out) = 1
            /\ hasBoth <=> "editorState" \in DOMAIN context
            /\ hasBoth =>
                  /\ context.editorState.cursorState = ctx.cursorState
                  /\ context.editorState.text = ctx.text
                  /\ context.editorState.programmingLanguage = ctx.programmingLanguage
                  /\ context.editorState.relativeFilePath = ctx.relativeFilePath
            /\ context.tools = (IF ev.flag THEN params.tools ELSE << >>)
            /\ data.origin = "IDE"
            /\ data.content = (IF params.prompt.escapedPrompt # Undef
                               THEN params.prompt.escapedPrompt
                               ELSE params.prompt.prompt)

\* an empty escaped prompt is the content; a cursor without a path gives no
\* editor state; the tool list not supplied is sent empty
C15_Witness ==
    /\ IsGetChatParams(ev)
    /\ ev.arg.prompt.escapedPrompt = ""
    /\ ev.arg.triggerContext.cursorState # Undef
    /\ ev.arg.triggerContext.relativeFilePath = Undef
    /\ ~ev.flag
    /\ out[1].content = ""
    /\ out[1].userInputMessageContext = ToolsOnly(<< >>)

---------------------------------------------------------------------------
(* C16 *)

IsLabel(e) == e.op = "fileDetailLabel"

\* the decimal numerals of the lines explored
Numeral(n) ==
    CASE n = 0 -> <<"0">>
      [] n = 3 -> <<"3">>
      [] n = 10 -> <<"1","0">>

Word == <<"l","i","n","e"," ">>
Dash == <<" ","-"," ">>

IsKnown(range) == range.first # -1 /\ range.second # -1

\* C16 as stated: a line range (A, B) with neither bound equal to -1 gives
\* the label 'line A - line B', and a range with a bound equal to -1 gives
\* the empty label.
C16_LabelLineALineB ==
    (IsLabel(ev) /\ ev.arg # Undef /\ Len(ev.arg) = 1) =>
        LET range == ev.arg[1]
        IN  out = << IF IsKnown(range)
                     THEN Word \o Numeral(range.first) \o Dash
                              \o Word \o Numeral(range.second)
                     ELSE << >> >>

\* the label the amended claim gives the ranges from the i-th on
RECURSIVE Expected(_, _)
Expected(lineRanges, i) ==
    LET range == lineRanges[i]
        one == IF IsKnown(range)
               THEN Word \o Numeral(range.first) \o Dash \o Numeral(range.second)
               ELSE << >>
    IN  IF i = Len(lineRanges) THEN one
        ELSE one \o <<",", " ">> \o Expected(lineRanges, i + 1)

\* C16 amended: a line range (A, B) with neither bound equal to -1 gives
\* 'line A - B' (the word 'line' once), a range with a bound equal to -1
\* gives the empty text, and the label of a file detail is these texts
\* joined by ', ', empty when the detail has no line ranges.
C16_LabelLineAB ==
    IsLabel(ev) =>
        out = << IF ev.arg = Undef \/ Len(ev.arg) = 0
                 THEN << >>
                 ELSE Expected(ev.arg, 1) >>

\* the range (3, 10) gives 'line 3 - 10'
C16_Witness ==
    /\ IsLabel(ev)
    /\ ev.arg = << Range(3, 10) >>
    /\ out = << <<"l","i","n","e"," ","3"," ","-"," ","1","0">> >>

---------------------------------------------------------------------------
(* C17 *)

\* the items of tab t before its last one
Earlier(ts, t) == SubSeq(Items(ts, t), 1, Len(Items(ts, t)) - 1)

\* C17: a final result for tab T that is not empty and no authentication
\* follow-up issues exactly one end-of-stream signal for T, carrying the
\* result's message id or the empty string when it has none, leaves
\* loadingChat = false and promptInputDisabledState = false and appends no
\* item; the content is merged before the stream is ended: when T's last
\* item was the active stream it now holds the result's body and follow-up
\* and is a terminal answer, the items before it unchanged.
C17_FinalMergeEndReset ==
    [][(IsFinalResponse(ev') /\ IsFinalizing(ev'.result) /\ ev'.tabId \in DOMAIN tabs) =>
        LET T == ev'.tabId
            chatResult == ev'.result
        IN  /\ signals' = << EndSignal(T, IF chatResult.messageId # Undef
                                          THEN chatResult.messageId ELSE "") >>
            /\ ~tabs'[T].loadingChat
            /\ ~tabs'[T].promptInputDisabledState
            /\ Len(Items(tabs', T)) = Len(Items(tabs, T))
            /\ HasActiveStream(tabs, T) =>
                  /\ Earlier(tabs', T) = Earlier(tabs, T)
                  /\ LastItem(tabs', T).type = ANSWER
                  /\ LastItem(tabs', T).body = chatResult.body
                  /\ LastItem(tabs', T).followUp =
                         (IF chatResult.followUp # Undef
                          THEN chatResult.followUp ELSE "{}")]_vars

\* a final result without message id ended the stream of the turn
C17_Witness ==
    /\ IsFinalResponse(ev)
    /\ ev.result = ChatResult("b", Undef, "plain", Undef)
    /\ ev.tabId \in DOMAIN tabs
    /\ signals = << EndSignal(ev.tabId, "") >>
    /\ Len(Items(tabs, ev.tabId)) >= 2
    /\ LastItem(tabs, ev.tabId) = ChatItem(ANSWER, "b", "plain")
    /\ Items(tabs, ev.tabId)[Len(Items(tabs, ev.tabId)) - 1].type = PROMPT
    /\ ~tabs[ev.tabId].promptInputDisabledState

---------------------------------------------------------------------------
(* C18 *)

IsAuthFinal(e) == IsFinalResponse(e) /\ IsAuthFollowUpResult(e.result)

\* C18: a final result with an empty body whose first follow-up option has
\* an authentication type appends one system-prompt item holding the
\* follow-up to the tab, leaves every item the tab had, its streaming-answer
\* item included, as it was, issues no end-of-stream signal and leaves
\* loadingChat and promptInputDisabledState as they were.
C18_AuthFollowUpAppendsSystemPrompt ==
    [][(IsAuthFinal(ev') /\ ev'.tabId \in DOMAIN tabs) =>
        LET T == ev'.tabId
        IN  /\ Items(tabs', T) =
                   Items(tabs, T) \o << ChatItem(SYSTEM_PROMPT, "", ev'.result.followUp) >>
            /\ signals' = << >>
            /\ SameFlags(T)]_vars

\* the system prompt follows the stream of a turn that is still loading
C18_Witness ==
    /\ IsAuthFinal(ev)
    /\ ev.tabId \in DOMAIN tabs
    /\ Len(Items(tabs, ev.tabId)) >= 3
    /\ LastItem(tabs, ev.tabId).type = SYSTEM_PROMPT
    /\ Items(tabs, ev.tabId)[Len(Items(tabs, ev.tabId)) - 1].type = ANSWER_STREAM
    /\ tabs[ev.tabId].loadingChat
    /\ signals = << >>

---------------------------------------------------------------------------
(* C19 *)

IsSubmit(e) == e.op = "onChatPrompt" /\ e.prompt.command # "/clear"

\* C19: when a prompt submit on tab T is answered by a final
\* authentication follow-up result, T's prompt input is available right
\* after that result: promptInputDisabledState = false.
C19_InputAvailableAfterAuthFollowUp ==
    [][(IsSubmit(ev) /\ IsAuthFinal(ev') /\ ev'.tabId = ev.tabId) =>
        ~tabs'[ev'.tabId].promptInputDisabledState]_vars

---------------------------------------------------------------------------
(* C20 *)

IsEmptyFinal(e) == IsFinalResponse(e) /\ e.result = EmptyResult

\* C20: a final addChatResponse whose result is the empty object changes
\* nothing: the tabs, their items and flags and the selection are as
\* before, and no end-of-stream signal, notice or message is issued; a
\* Streaming tab stays Streaming.
C20_EmptyFinalIsNoOp ==
    [][IsEmptyFinal(ev') =>
        /\ tabs' = tabs
        /\ selected' = selected
        /\ signals' = << >>
        /\ notes' = << >>
        /\ out' = << >>]_vars

\* the empty final result came to a Streaming tab, which still streams
C20_Witness ==
    /\ IsEmptyFinal(ev)
    /\ ev.tabId \in DOMAIN tabs
    /\ HasActiveStream(tabs, ev.tabId)
    /\ tabs[ev.tabId].loadingChat
    /\ tabs[ev.tabId].promptInputDisabledState
    /\ signals = << >>

---------------------------------------------------------------------------
(* C23 *)

IsOpenTab(e) == e.op = "openTab"

\* the onOpenTab replies among the messages of the last handler
Replies(msgs) == { i \in 1..Len(msgs) : msgs[i].type = "openTab" }

InvalidRequest == "InvalidRequest: No more tabs available"

\* the tabs that were open keep their stores
OthersKept == \A t \in DOMAIN tabs : t \in DOMAIN tabs' /\ tabs'[t] = tabs[t]

\* C23: every openTab request gets exactly one onOpenTab reply.  Given a
\* tab id, the reply carries it, that tab is the selected one afterwards and
\* no tab is created.  Given none, a tab is created that holds the supplied
\* messages, or the welcome messages when none are supplied, and the reply
\* carries its id; with maxTabs tabs open the reply is the InvalidRequest
\* error 'No more tabs available' and no tab is created.
C23_OpenTabRepliesOnce ==
    [][IsOpenTab(ev') =>
        /\ Cardinality(Replies(out')) = 1
        /\ LET reply == out'[CHOOSE i \in Replies(out') : TRUE]
           IN  IF ev'.tabId # 0
               THEN /\ reply = Msg("openTab", ev'.tabId, Undef)
                    /\ selected' = ev'.tabId
                    /\ tabs' = tabs
               ELSE IF Cardinality(DOMAIN tabs) < maxTabs
               THEN /\ reply.tabId \notin DOMAIN tabs
                    /\ DOMAIN tabs' = DOMAIN tabs \cup {reply.tabId}
                    /\ reply.data = Undef
                    /\ tabs'[reply.tabId].chatItems =
                           IF ev'.flag THEN SeedMessages ELSE WelcomeItems
                    /\ OthersKept
               ELSE /\ reply = Msg("openTab", 0, InvalidRequest)
                    /\ tabs' = tabs]_vars

\* a request without a tab id, refused with maxTabs tabs open
C23_Witness ==
    /\ IsOpenTab(ev)
    /\ ev.tabId = 0
    /\ Cardinality(DOMAIN tabs) = maxTabs
    /\ out = << Msg("openTab", 0, InvalidRequest) >>
    /\ Len(notes) = 1

\* a request that names a tab other than the selected one
C23_WitnessSelects ==
    /\ IsOpenTab(ev)
    /\ ev.tabId # 0
    /\ selected = ev.tabId
    /\ out = << Msg("openTab", ev.tabId, Undef) >>
    /\ Cardinality(DOMAIN tabs) > 1

---------------------------------------------------------------------------
(* C24 *)

IsGenericCommand(e) == e.op = "sendGenericCommand"

\* the tab sendGenericCommand needs made: none is selected, or the selected
\* one is loading
NeedsNewTab == selected = 0 \/ tabs[selected].loadingChat

\* the items a prompt submit appends, the body being that of the command
Submitted == << ChatItem(PROMPT, "q", Undef), ChatItem(ANSWER_STREAM, Undef, Undef) >>

\* C24: sendGenericCommand never submits its prompt to a tab that is
\* loading.  It submits to the selected tab when that one is not loading;
\* when none is selected or the selected one is loading it submits to a
\* tab it creates, leaving every other tab as it was.  When the creation
\* it needs fails at the cap, no tab's items or flags change and no
\* message is emitted.
C24_GenericCommandAvoidsLoadingTab ==
    [][IsGenericCommand(ev') =>
        LET target == ev'.ret
        IN  IF NeedsNewTab /\ Cardinality(DOMAIN tabs) = maxTabs
            THEN /\ target = 0
                 /\ tabs' = tabs
                 /\ out' = << >>
            ELSE /\ target # 0
                 /\ IF NeedsNewTab
                    THEN /\ target \notin DOMAIN tabs
                         /\ tabs'[target].chatItems = Submitted
                    ELSE /\ target = selected
                         /\ ~tabs[target].loadingChat
                         /\ tabs'[target].chatItems =
                                tabs[target].chatItems \o Submitted
                 /\ tabs'[target].loadingChat
                 /\ DOMAIN tabs' = DOMAIN tabs \cup {target}
                 /\ \A t \in DOMAIN tabs \ {target} : tabs'[t] = tabs[t]
                 /\ \E i \in 1..Len(out') : out'[i] = Msg("chatPrompt", target, "q")]_vars

\* the selected tab was loading: the prompt went to a new tab
C24_Witness ==
    /\ IsGenericCommand(ev)
    /\ ev.tabId # 0
    /\ ev.ret \notin {0, ev.tabId}
    /\ ev.tabId \in DOMAIN tabs
    /\ tabs[ev.tabId].loadingChat
    /\ tabs[ev.ret].chatItems = Submitted

\* the selected tab was loading with maxTabs tabs open: nothing was done
C24_WitnessAtCap ==
    /\ IsGenericCommand(ev)
    /\ ev.tabId # 0
    /\ ev.ret = 0
    /\ tabs[ev.tabId].loadingChat
    /\ Cardinality(DOMAIN tabs) = maxTabs
    /\ out = << >>

---------------------------------------------------------------------------
(* C25 *)

\* showError reached its store updates: it had a tab to work on
IsShownError(e) == e.op = "showError" /\ e.ret # 0

\* C25: showError acts on one tab, params.tabId: that tab gets the error
\* answer appended and its loadingChat and promptInputDisabledState reset
\* to false, whichever tab is selected, and the items and flags of every
\* other tab stay as they were.
C25_ShowErrorActsOnOneTab ==
    [][(IsShownError(ev') /\ ev'.tabId \in DOMAIN tabs) =>
        LET tabId == ev'.tabId
        IN  /\ Items(tabs', tabId) = Append(Items(tabs, tabId), ErrorAnswer)
            /\ ~tabs'[tabId].loadingChat
            /\ ~tabs'[tabId].promptInputDisabledState
            /\ \A t \in DOMAIN tabs \ {tabId} :
                  /\ Items(tabs', t) = Items(tabs, t)
                  /\ SameFlags(t)]_vars

---------------------------------------------------------------------------
(* C21 *)

\* an event of the stream of tab e.tabId: a prompt submit or a result
IsStreamEvent(e) == e.op \in {"onChatPrompt", "addChatResponse"}

\* the tab map that holds tab t and no other
Solo(t) == [u \in {t} |-> tabs[u]]

\* what the event e does when its tab is the only one: the store of the
\* tab, the messages and the end-of-stream signals
Alone(e) ==
    IF e.op = "onChatPrompt"
    THEN LET r == handleChatPrompt(Solo(e.tabId), e.tabId, e.prompt)
         IN  [store |-> r.tabs[e.tabId], out |-> r.out, signals |-> << >>]
    ELSE LET r == addChatResponse(Solo(e.tabId), e.result, e.tabId, e.flag)
         IN  [store |-> r.tabs[e.tabId], out |-> << >>, signals |-> r.signals]

---------------------------------------------------------------------------
(* C22 *)

\* the events that may end the Streaming state of tab t: a final result
\* for t, and showError
MayEndStream(e, t) == (IsFinalResponse(e) /\ e.tabId = t) \/ e.op = "showError"

C22_WitnessAcknowledged ==
    /\ ev.op = "onInBodyButtonClicked"
    /\ ev.arg = disclaimerAcknowledgeButtonId
    /\ tabs[ev.tabId].loadingChat
    /\ ~tabs[ev.tabId].promptInputStickyCard

\* a click was passed through while the shown tab streams beside another
C22_WitnessPassThrough ==
    /\ ev.op \in PassThroughHandlers
    /\ tabs[ev.tabId].loadingChat
    /\ Cardinality(DOMAIN tabs) > 1

====
